---------------------------- MODULE Spec2Model ----------------------------
(***************************************************************************)
(* Monitor tracking of fastNLP callbacks:                                  *)
(* src/fastNLP/core/callbacks/callback.py, class HasMonitorCallback, and   *)
(* the checkpoint hooks it inherits from class Callback.                   *)
(***************************************************************************)
EXTENDS Integers, Sequences, FiniteSets

(***************************************************************************)
(* Bounds of the model.                                                    *)
(***************************************************************************)
\* finite monitor values are 0..MaxValue
MaxValue == 2
\* an evaluation result holds at most MaxResults entries
MaxResults == 2
\* an event is called on one wrapper at most this often
MaxCalls == 4
\* the largest every and the largest once of an event state
MaxInterval == 2

(***************************************************************************)
(* Python objects.  A name-like object is [type, repr]: repr is the        *)
(* sequence of characters str() gives.  A number-like object is [kind, n]. *)
(***************************************************************************)
None == [type |-> "NoneType", repr |-> <<"N", "o", "n", "e">>]

PyStr(chars) == [type |-> "str", repr |-> chars]

PyInt(chars) == [type |-> "int", repr |-> chars]

\* str(x): a str object with the characters of x
str(x) == [type |-> "str", repr |-> x.repr]

Num(n) == [kind |-> "num", n |-> n]

\* a tensor-like scalar: an object with an item() method
Tensor(n) == [kind |-> "tensor", n |-> n]

PyBool(b) == [kind |-> "bool", n |-> IF b THEN 1 ELSE 0]

PyNone == [kind |-> "NoneType", n |-> 0]

\* float('inf') and float('-inf')
PosInf == [kind |-> "inf", n |-> 1]

NegInf == [kind |-> "inf", n |-> -1]

\* truth value of a bool or a number, as `if x:` and bool(x) take it
Truthy(x) == x.n # 0

Sign(x) == IF x.kind = "inf" THEN x.n ELSE 0

\* a > b on floats with infinities
Gt(a, b) == \/ Sign(a) > Sign(b)
            \/ Sign(a) = 0 /\ Sign(b) = 0 /\ a.n > b.n

\* a < b
Lt(a, b) == Gt(b, a)

(***************************************************************************)
(* Inputs.                                                                 *)
(***************************************************************************)
acc == PyStr(<<"a", "c", "c">>)

accu == PyStr(<<"a", "c", "c", "u">>)

f1 == PyStr(<<"f", "1">>)

seven == PyInt(<<"7">>)

\* what a caller may pass as `monitor`
MonitorArgs == {None, acc, seven}

\* what a caller may pass as `larger_better`
LargerBetterArgs == {PyBool(TRUE), PyBool(FALSE), Num(1), Num(0)}

\* monitor values a caller may pass
Values == {NegInf, PosInf} \cup {Num(n) : n \in 0..MaxValue}

\* keys of an evaluation result
Keys == {acc, accu, f1}

\* values of an evaluation result
ResultValues == {Num(1), Tensor(2)}

Entries == [key : Keys, value : ResultValues]

\* a dict in insertion order: no key twice
IsDict(res) == \A i, j \in 1..Len(res) : res[i].key = res[j].key => i = j

Results == {res \in UNION {[1..n -> Entries] : n \in 0..MaxResults} : IsDict(res)}

Trainers == [monitor : MonitorArgs, larger_better : LargerBetterArgs]


(***************************************************************************)
(* State: one callback object.  Its class, the fields of a                 *)
(* HasMonitorCallback, the attributes of a _CallbackWrapper, and what the  *)
(* last call did.                                                          *)
(***************************************************************************)
VARIABLES
    cls,                \* self.__class__.__name__
    monitor,            \* self.monitor: None or a str
    larger_better,      \* self.larger_better: a bool
    monitor_value,      \* self.monitor_value: the best value kept
    _real_monitor,      \* self._real_monitor: the key resolved last
    must_have_moinitor, \* self.must_have_moinitor (spelled as in the source)
    fn,                 \* self.fn of a _CallbackWrapper
    attrs,              \* the attributes setattr put on a _CallbackWrapper: for each
                        \* event value, which Filter object wraps fn there
    filters,            \* the Filter objects a _CallbackWrapper created, in order
    ctor,               \* the arguments __init__ was called with
    passed,             \* history: values passed with keep_if_better since the last reset
    resolved,           \* history: the name requested by the last reset, or the key
                        \* the last call with non-empty results resolved since
    seen,               \* history: the trainer of the last on_after_trainer_initialized
                        \* since the last set_monitor from outside, and whether the
                        \* call before it had the same trainer
    made,               \* history: for each event value, the event state bound last
    delivered,          \* history: for each bound event, how often it was called
    ran,                \* history: for each bound event, the calls on which fn ran
    call                \* the last call: its name and its outcome

\* the state of a _CallbackWrapper and its history
wrapperVars == <<fn, attrs, filters, made, delivered, ran>>

vars == <<cls, monitor, larger_better, monitor_value, _real_monitor,
          must_have_moinitor, ctor, passed, resolved, seen, wrapperVars, call>>

\* the outcome of a call that returns None, raises nothing and logs nothing
Returned(op) == [op |-> op, ret |-> PyNone, raised |-> FALSE, warned |-> FALSE]

(***************************************************************************)
(* HasMonitorCallback.set_monitor                                          *)
(***************************************************************************)
\* a faulty variant of StrOrNone: None is not told apart and becomes the str "None"
StrAlways(m) == str(m)

\* str(monitor) if monitor is not None else None
StrOrNone(m) == IF m # None THEN str(m) ELSE None

\* a faulty variant of Sentinel: the else branch is lost
SentinelNegInf(lb) == NegInf

\* float('-inf') if larger_better else float('inf')
Sentinel(lb) == IF Truthy(lb) THEN NegInf ELSE PosInf

set_monitor(m, lb) ==
    /\ monitor' = StrOrNone(m)
    /\ larger_better' = Truthy(lb)
    /\ monitor_value' = Sentinel(lb)
    /\ _real_monitor' = monitor'
    /\ passed' = {}
    /\ resolved' = StrOrNone(m)

(***************************************************************************)
(* HasMonitorCallback.__init__                                             *)
(***************************************************************************)
\* no on_after_trainer_initialized was seen
NotSeen == [trainer |-> None, again |-> FALSE]

\* the fn of an object that wraps no function
NoFunction == [name |-> "", returns |-> PyNone]

\* the object is no _CallbackWrapper: nothing is wrapped, nothing is bound
NoWrapper ==
    /\ fn = NoFunction
    /\ attrs = <<>>
    /\ filters = <<>>
    /\ made = <<>>
    /\ delivered = <<>>
    /\ ran = <<>>

Init ==
    \E m \in MonitorArgs, lb \in LargerBetterArgs, mh \in BOOLEAN :
        /\ cls = "HasMonitorCallback"
        /\ NoWrapper
        /\ seen = NotSeen
        /\ monitor = StrOrNone(m)
        /\ larger_better = Truthy(lb)
        /\ monitor_value = Sentinel(lb)
        /\ _real_monitor = monitor
        /\ must_have_moinitor = mh
        /\ ctor = [monitor |-> m, larger_better |-> lb, must_have_monitor |-> mh]
        /\ passed = {}
        /\ resolved = StrOrNone(m)
        /\ call = Returned("__init__")

\* set_monitor called from outside
SetMonitor(m, lb) ==
    /\ cls = "HasMonitorCallback"
    /\ set_monitor(m, lb)
    /\ call' = Returned("set_monitor")
    /\ seen' = NotSeen
    /\ UNCHANGED <<cls, must_have_moinitor, ctor, wrapperVars>>

(***************************************************************************)
(* HasMonitorCallback.on_after_trainer_initialized                         *)
(***************************************************************************)
\* a faulty variant of Adopts: the tracker's own monitor is not looked at
AdoptsAlways(trainer) == trainer.monitor # None

\* self.monitor is None and trainer.monitor is not None
Adopts(trainer) == monitor = None /\ trainer.monitor # None

\* a faulty variant of Raises: the must_have_moinitor flag is not looked at
RaisesWithoutFlag(mon) == mon = None

\* self.must_have_moinitor and self.monitor is None, on the monitor as it is then
Raises(mon) == must_have_moinitor /\ mon = None

\* a faulty variant of on_after_trainer_initialized: the trainer's name is adopted with
\* the tracker's own direction
on_after_trainer_initialized_own_direction(trainer) ==
    /\ IF Adopts(trainer)
       THEN set_monitor(trainer.monitor, PyBool(larger_better))
       ELSE UNCHANGED <<monitor, larger_better, monitor_value, _real_monitor, passed,
                        resolved>>
    /\ call' = [Returned("on_after_trainer_initialized") EXCEPT !.raised = Raises(monitor')]

on_after_trainer_initialized(trainer) ==
    /\ IF Adopts(trainer)
       THEN set_monitor(trainer.monitor, trainer.larger_better)
       ELSE UNCHANGED <<monitor, larger_better, monitor_value, _real_monitor, passed,
                        resolved>>
    /\ call' = [Returned("on_after_trainer_initialized") EXCEPT !.raised = Raises(monitor')]

OnAfterTrainerInitialized(trainer) ==
    /\ cls = "HasMonitorCallback"
    /\ on_after_trainer_initialized(trainer)
    /\ UNCHANGED <<cls, must_have_moinitor, ctor, seen, wrapperVars>>

\* the same call, with the history of trainers recorded
OnAfterTrainerInitializedRecorded(trainer) ==
    /\ cls = "HasMonitorCallback"
    /\ on_after_trainer_initialized(trainer)
    /\ seen' = [trainer |-> trainer, again |-> seen.trainer = trainer]
    /\ UNCHANGED <<cls, must_have_moinitor, ctor, wrapperVars>>

(***************************************************************************)
(* HasMonitorCallback.is_former_monitor_value_better and                   *)
(* is_better_monitor_value                                                 *)
(***************************************************************************)
\* a faulty variant of is_former_monitor_value_better: >= and <= for > and <
is_former_monitor_value_not_worse(monitor_value1, monitor_value2) ==
    \/ larger_better /\ ~Lt(monitor_value1, monitor_value2)
    \/ ~larger_better /\ ~Gt(monitor_value1, monitor_value2)

is_former_monitor_value_better(monitor_value1, monitor_value2) ==
    \/ larger_better /\ Gt(monitor_value1, monitor_value2)
    \/ ~larger_better /\ Lt(monitor_value1, monitor_value2)

IsFormerMonitorValueBetter(v1, v2) ==
    /\ cls = "HasMonitorCallback"
    /\ call' = [Returned("is_former_monitor_value_better") EXCEPT
                    !.ret = PyBool(is_former_monitor_value_better(v1, v2))]
    /\ UNCHANGED <<cls, monitor, larger_better, monitor_value, _real_monitor,
                   must_have_moinitor, ctor, passed, resolved, seen, wrapperVars>>

\* a faulty variant of Keeps: the value is kept whether or not it is better
KeepsAlways(keep_if_better, better) == keep_if_better

\* a faulty variant of Keeps: a better value is kept whether or not the caller asked
KeepsWhenBetter(keep_if_better, better) == better

\* keep_if_better and better
Keeps(keep_if_better, better) == keep_if_better /\ better

is_better_monitor_value(value, keep_if_better) ==
    LET better == is_former_monitor_value_better(value, monitor_value) IN
    /\ monitor_value' = IF Keeps(keep_if_better, better) THEN value ELSE monitor_value
    /\ call' = [Returned("is_better_monitor_value") EXCEPT !.ret = PyBool(better)]

IsBetterMonitorValue(value, keep_if_better) ==
    /\ cls = "HasMonitorCallback"
    /\ is_better_monitor_value(value, keep_if_better)
    /\ UNCHANGED <<cls, monitor, larger_better, _real_monitor, must_have_moinitor, ctor,
                   passed, resolved, seen, wrapperVars>>

\* the same call, with the history of kept values recorded
IsBetterMonitorValueRecorded(value, keep_if_better) ==
    /\ cls = "HasMonitorCallback"
    /\ is_better_monitor_value(value, keep_if_better)
    /\ passed' = IF keep_if_better THEN passed \cup {value} ELSE passed
    /\ UNCHANGED <<cls, monitor, larger_better, _real_monitor, must_have_moinitor, ctor,
                   resolved, seen, wrapperVars>>

(***************************************************************************)
(* Helpers of get_monitor_value that live outside callback.py:             *)
(* apply_to_collection (fastNLP.core.utils) and _get_monitor_value         *)
(* (callbacks/utils), both as the specification describes them.            *)
(***************************************************************************)
\* CanItemDataType: the objects that have a callable item
CanItemDataType(x) == x.kind = "tensor"

\* lambda x: x.item()
Item(x) == Num(x.n)

apply_to_collection(results) ==
    [i \in 1..Len(results) |->
        IF CanItemDataType(results[i].value)
        THEN [results[i] EXCEPT !.value = Item(results[i].value)]
        ELSE results[i]]

KeysOf(res) == {res[i].key : i \in 1..Len(res)}

ValueAt(res, key) == res[CHOOSE i \in 1..Len(res) : res[i].key = key].value

\* a and b agree on n characters from positions i and j
CommonAt(a, i, b, j, n) == \A k \in 0..(n - 1) : a[i + k] = b[j + k]

\* length of the longest substring two names share; nothing matches a non-str
MatchLength(a, b) ==
    IF a.type # "str" \/ b.type # "str" THEN 0
    ELSE LET x == a.repr
             y == b.repr
             sizes == {n \in 0..Len(x) :
                         \E i \in 1..(Len(x) - n + 1), j \in 1..(Len(y) - n + 1) :
                             CommonAt(x, i, y, j, n)}
         IN  CHOOSE n \in sizes : \A other \in sizes : other <= n

\* the first key of res among those that match the name best
BestMatch(name, res) ==
    LET best(i) == \A j \in 1..Len(res) :
                        MatchLength(name, res[j].key) <= MatchLength(name, res[i].key)
        first == CHOOSE i \in 1..Len(res) : best(i) /\ \A j \in 1..(i - 1) : ~best(j)
    IN  res[first].key

\* the key to use: the exact name, else the key used last, else the best match
ResolveKey(mon, real_monitor, res) ==
    IF mon \in KeysOf(res) THEN mon
    ELSE IF real_monitor \in KeysOf(res) THEN real_monitor
    ELSE BestMatch(mon, res)

_get_monitor_value(mon, real_monitor, res) ==
    LET key == ResolveKey(mon, real_monitor, res) IN
    [use_monitor |-> key, monitor_value |-> ValueAt(res, key)]

(***************************************************************************)
(* HasMonitorCallback.get_monitor_value                                    *)
(***************************************************************************)
\* a faulty variant of Warns: the key is compared with the requested name, not with the
\* key used last
WarnsWhenSubstituted(real_monitor, use_monitor) == monitor # use_monitor

\* self._real_monitor != use_monitor: the warning is logged
Warns(real_monitor, use_monitor) == real_monitor # use_monitor

\* a faulty variant of get_monitor_value: without the early return, empty results go
\* on to the resolution, which has nothing to find but the requested name
get_monitor_value_unguarded(results) ==
    LET res == apply_to_collection(results)
        use_monitor == IF Len(res) = 0 THEN monitor
                       ELSE ResolveKey(monitor, _real_monitor, res)
    IN  /\ _real_monitor' = use_monitor
        /\ resolved' = use_monitor
        /\ call' = [Returned("get_monitor_value") EXCEPT
                        !.ret = IF Len(res) = 0 THEN Num(0) ELSE ValueAt(res, use_monitor),
                        !.warned = Warns(_real_monitor, use_monitor)]

get_monitor_value(results) ==
    IF Len(results) = 0
    THEN /\ call' = [Returned("get_monitor_value") EXCEPT !.ret = Num(0)]
         /\ UNCHANGED <<_real_monitor, resolved>>
    ELSE LET got == _get_monitor_value(monitor, _real_monitor, apply_to_collection(results)) IN
         /\ _real_monitor' = got.use_monitor
         /\ resolved' = ResolveKey(monitor, _real_monitor, apply_to_collection(results))
         /\ call' = [Returned("get_monitor_value") EXCEPT
                         !.ret = got.monitor_value,
                         !.warned = Warns(_real_monitor, got.use_monitor)]

\* a faulty variant of GetMonitorValue: the value looked up is kept as the best value
GetMonitorValueRecords(results) ==
    /\ cls = "HasMonitorCallback"
    /\ get_monitor_value(results)
    /\ monitor_value' = IF Len(results) = 0 THEN monitor_value ELSE call'.ret
    /\ UNCHANGED <<cls, monitor, larger_better, must_have_moinitor, ctor,
                   passed, seen, wrapperVars>>

GetMonitorValue(results) ==
    /\ cls = "HasMonitorCallback"
    /\ get_monitor_value(results)
    /\ UNCHANGED <<cls, monitor, larger_better, monitor_value, must_have_moinitor, ctor,
                   passed, seen, wrapperVars>>

(***************************************************************************)
(* Callback.on_save_checkpoint and Callback.on_load_checkpoint, which      *)
(* HasMonitorCallback inherits                                             *)
(***************************************************************************)
\* the body is `pass`: the call returns None and assigns nothing
on_save_checkpoint == PyNone

OnSaveCheckpoint ==
    /\ call' = [Returned("on_save_checkpoint") EXCEPT !.ret = on_save_checkpoint]
    /\ UNCHANGED <<cls, monitor, larger_better, monitor_value, _real_monitor,
                   must_have_moinitor, ctor, passed, resolved, seen, wrapperVars>>

\* the body is `pass`: states is not read and no field is assigned
on_load_checkpoint(states) == call' = Returned("on_load_checkpoint")

\* on_load_checkpoint of this instance, with the None on_save_checkpoint returns
OnLoadCheckpoint ==
    /\ on_load_checkpoint(on_save_checkpoint)
    /\ UNCHANGED <<cls, monitor, larger_better, monitor_value, _real_monitor,
                   must_have_moinitor, ctor, passed, resolved, seen, wrapperVars>>

\* a restart right after a save: a fresh instance is constructed with the
\* arguments of the first (__init__), and the trainer hands its
\* on_load_checkpoint what on_save_checkpoint returned
RestoreFromCheckpoint ==
    /\ call.op = "on_save_checkpoint"
    /\ set_monitor(ctor.monitor, ctor.larger_better)
    /\ must_have_moinitor' = ctor.must_have_monitor
    /\ on_load_checkpoint(call.ret)
    /\ UNCHANGED <<cls, ctor, seen, wrapperVars>>

(***************************************************************************)
(* Events and Filter of callback_events, which callback.py imports.        *)
(* An event state carries the value (the hook's name), every, once and     *)
(* filter_fn; an EventsList is a list of event states.  A Filter counts    *)
(* the calls of the callable it wraps, the first call as 1, and lets the   *)
(* handler run when its policy says so: filter_fn if there is one, else    *)
(* once if it is set, else every, which is 1 when nothing is set.          *)
(***************************************************************************)
\* a filter_fn: true of the odd call numbers
is_odd == [name |-> "is_odd"]

_SingleEventState(value, every, once, filter_fn) ==
    [type |-> "_SingleEventState", value |-> value, every |-> every, once |-> once,
     filter_fn |-> filter_fn]

EventsList(events) == [type |-> "EventsList", events |-> events]

\* Filter(every, once, filter_fn): a new Filter object, called zero times
Filter(every, once, filter_fn) ==
    [every |-> every, once |-> once, filter_fn |-> filter_fn, num_called |-> 0]

\* filter_fn(counter)
CallFilterFn(filter_fn, counter) == filter_fn = is_odd /\ counter % 2 = 1

\* the counter is incremented on every call of the wrapped callable
FilterCalled(filter) == [filter EXCEPT !.num_called = @ + 1]

\* the policy, on the counter as incremented
Policy(filter) ==
    IF filter.filter_fn # PyNone
    THEN CallFilterFn(filter.filter_fn, filter.num_called)
    ELSE IF filter.once # PyNone
    THEN filter.num_called = filter.once.n
    ELSE filter.num_called % (IF filter.every # PyNone THEN filter.every.n ELSE 1) = 0

(***************************************************************************)
(* _CallbackWrapper.__init__ and the hooks of Callback                     *)
(***************************************************************************)
\* the hooks of Callback
Hooks ==
    {"on_after_trainer_initialized", "on_sanity_check_begin", "on_sanity_check_end",
     "on_train_begin", "on_train_end", "on_train_epoch_begin", "on_train_epoch_end",
     "on_fetch_data_begin", "on_fetch_data_end", "on_train_batch_begin",
     "on_train_batch_end", "on_exception", "on_save_model", "on_load_model",
     "on_save_checkpoint", "on_load_checkpoint", "on_before_backward",
     "on_after_backward", "on_before_optimizers_step", "on_after_optimizers_step",
     "on_before_zero_grad", "on_after_zero_grad", "on_validate_begin", "on_validate_end"}

\* the events a wrapper is bound to here, and the events called on it
BindableEvents == {"on_train_epoch_end", "on_train_batch_end"}

CalledEvents == BindableEvents \cup {"on_exception"}

\* the functions wrapped: their __name__ and what they return
Functions == {[name |-> "log_loss", returns |-> Num(1)],
              [name |-> "checkpoint", returns |-> PyNone]}

Intervals == {PyNone} \cup {Num(n) : n \in 1..MaxInterval}

EventStates ==
    {_SingleEventState(value, every, once, filter_fn) :
        value \in BindableEvents, every \in Intervals, once \in Intervals,
        filter_fn \in {PyNone, is_odd}}

\* the event argument: one event state, or an EventsList of one or two
EventArgs ==
    EventStates \cup {EventsList(<<a>>) : a \in EventStates}
                \cup {EventsList(<<a, b>>) : a \in EventStates, b \in EventStates}

\* a faulty variant of NewFilter: every and once change places
NewFilterSwapped(each_event) ==
    Filter(each_event.once, each_event.every, each_event.filter_fn)

\* a faulty variant of NewFilter: once is not passed on
NewFilterWithoutOnce(each_event) ==
    Filter(each_event.every, PyNone, each_event.filter_fn)

\* a faulty variant of NewFilter: filter_fn is not passed on
NewFilterWithoutFn(each_event) ==
    Filter(each_event.every, each_event.once, PyNone)

\* _filter = Filter(each_event.every, each_event.once, each_event.filter_fn)
NewFilter(each_event) ==
    Filter(each_event.every, each_event.once, each_event.filter_fn)

\* the event states the two isinstance branches go through
EventsOf(event) ==
    IF event.type = "EventsList" THEN event.events
    ELSE IF event.type = "_SingleEventState" THEN <<event>>
    ELSE <<>>

\* the Filter objects created, one for each event state gone through
BoundFilters(event) ==
    [i \in 1..Len(EventsOf(event)) |-> NewFilter(EventsOf(event)[i])]

\* a faulty variant of BoundAttrs: one Filter is created before the loop and wraps
\* fn for every event
BoundAttrsShared(event) ==
    [value \in {EventsOf(event)[i].value : i \in 1..Len(EventsOf(event))} |-> 1]

\* setattr(self, each_event.value, _filter(fn)): a later setattr for the same
\* value replaces the earlier one
BoundAttrs(event) ==
    [value \in {EventsOf(event)[i].value : i \in 1..Len(EventsOf(event))} |->
        CHOOSE i \in 1..Len(EventsOf(event)) :
            /\ EventsOf(event)[i].value = value
            /\ \A j \in (i + 1)..Len(EventsOf(event)) : EventsOf(event)[j].value # value]

\* history: the event state bound last for each event value
Made(event) ==
    LET events == IF event.type = "EventsList" THEN event.events ELSE <<event>>
        last(value) == CHOOSE i \in 1..Len(events) :
                           /\ events[i].value = value
                           /\ ~\E j \in 1..Len(events) : j > i /\ events[j].value = value
    IN [value \in {events[i].value : i \in 1..Len(events)} |-> events[last(value)]]

\* the object is no HasMonitorCallback: the fields of a tracker are not there
NoTracker ==
    /\ monitor = None
    /\ larger_better = FALSE
    /\ monitor_value = PosInf
    /\ _real_monitor = None
    /\ must_have_moinitor = FALSE
    /\ ctor = [monitor |-> None, larger_better |-> PyBool(FALSE), must_have_monitor |-> FALSE]
    /\ passed = {}
    /\ resolved = None
    /\ seen = NotSeen

\* Callback(): no field at all
InitCallback ==
    /\ cls = "Callback"
    /\ NoTracker
    /\ NoWrapper
    /\ call = Returned("__init__")

\* _CallbackWrapper(event, fn)
InitCallbackWrapper ==
    \E event \in EventArgs, func \in Functions :
        /\ cls = "_CallbackWrapper"
        /\ NoTracker
        /\ fn = func
        /\ filters = BoundFilters(event)
        /\ attrs = BoundAttrs(event)
        /\ made = Made(event)
        /\ delivered = [value \in DOMAIN Made(event) |-> 0]
        /\ ran = [value \in DOMAIN Made(event) |-> {}]
        /\ call = Returned("__init__")

\* a faulty variant of BaseHook: the hook hands something back
BaseHookAnswers(event) == call' = [Returned(event) EXCEPT !.ret = PyBool(TRUE)]

\* a hook as Callback defines it: the body is `pass`
BaseHook(event) == call' = Returned(event)

\* the trainer calls the hook named event on the object.  On a wrapper bound to
\* the event the attribute set in __init__ is called: the Filter counts the
\* call and runs fn if its policy says so.  Otherwise the hook is Callback's.
Deliver(event) ==
    /\ ~(cls = "HasMonitorCallback" /\ event = "on_after_trainer_initialized")
    /\ IF event \in DOMAIN attrs
       THEN LET filter == FilterCalled(filters[attrs[event]]) IN
            /\ delivered[event] < MaxCalls
            /\ filters' = [filters EXCEPT ![attrs[event]] = filter]
            /\ call' = [Returned(event) EXCEPT
                            !.ret = IF Policy(filter) THEN fn.returns ELSE PyNone]
            /\ delivered' = [delivered EXCEPT ![event] = @ + 1]
            /\ ran' = [ran EXCEPT ![event] =
                            IF Policy(filter) THEN @ \cup {delivered[event] + 1} ELSE @]
       ELSE /\ BaseHook(event)
            /\ UNCHANGED <<filters, delivered, ran>>
    /\ UNCHANGED <<cls, monitor, larger_better, monitor_value, _real_monitor,
                   must_have_moinitor, ctor, passed, resolved, seen, fn, attrs, made>>

\* a faulty variant of callback_name: _CallbackWrapper does not override the property
callback_name_inherited == cls

\* Callback.callback_name, and _CallbackWrapper.callback_name which overrides it
callback_name == IF cls = "_CallbackWrapper" THEN fn.name ELSE cls

Next ==
    \/ \E m \in MonitorArgs, lb \in LargerBetterArgs : SetMonitor(m, lb)
    \/ \E trainer \in Trainers : OnAfterTrainerInitialized(trainer)
    \/ \E v1 \in Values, v2 \in Values : IsFormerMonitorValueBetter(v1, v2)
    \/ \E value \in Values, keep_if_better \in BOOLEAN :
            IsBetterMonitorValue(value, keep_if_better)
    \/ \E results \in Results : GetMonitorValue(results)
    \/ OnSaveCheckpoint
    \/ OnLoadCheckpoint

Spec == Init /\ [][Next]_vars

\* the operations that set and compare the best value, with the history recorded
NextRecorded ==
    \/ \E m \in MonitorArgs, lb \in LargerBetterArgs : SetMonitor(m, lb)
    \/ \E trainer \in Trainers : OnAfterTrainerInitialized(trainer)
    \/ \E value \in Values, keep_if_better \in BOOLEAN :
            IsBetterMonitorValueRecorded(value, keep_if_better)

SpecRecorded == Init /\ [][NextRecorded]_vars

\* a run that records best values, saves, and restarts from what was saved
NextCheckpoint ==
    \/ \E value \in Values, keep_if_better \in BOOLEAN :
            IsBetterMonitorValueRecorded(value, keep_if_better)
    \/ OnSaveCheckpoint
    \/ RestoreFromCheckpoint

SpecCheckpoint == Init /\ [][NextCheckpoint]_vars

\* a plain Callback or a function wrapped for some events, and the hooks the
\* trainer calls on it
InitWrapper == InitCallback \/ InitCallbackWrapper

NextWrapper == \E event \in CalledEvents : Deliver(event)

SpecWrapper == InitWrapper /\ [][NextWrapper]_vars

\* a plain Callback or a tracker, every hook the trainer may call on it, and
\* the tracker's methods that change its fields
InitEvents == InitCallback \/ Init

NextEvents ==
    \/ \E event \in Hooks : Deliver(event)
    \/ \E m \in MonitorArgs, lb \in LargerBetterArgs : SetMonitor(m, lb)
    \/ \E trainer \in Trainers : OnAfterTrainerInitialized(trainer)
    \/ \E value \in Values, keep_if_better \in BOOLEAN :
            IsBetterMonitorValue(value, keep_if_better)

SpecEvents == InitEvents /\ [][NextEvents]_vars

\* a tracker on which on_after_trainer_initialized is called again and again,
\* with the history of trainers
NextInitialized ==
    \/ \E m \in MonitorArgs, lb \in LargerBetterArgs : SetMonitor(m, lb)
    \/ \E trainer \in Trainers : OnAfterTrainerInitializedRecorded(trainer)
    \/ \E value \in Values, keep_if_better \in BOOLEAN :
            IsBetterMonitorValue(value, keep_if_better)

SpecInitialized == Init /\ [][NextInitialized]_vars

(***************************************************************************)
(* The order on monitor values, stated apart from the code: the position   *)
(* of a value on the extended real line.                                   *)
(***************************************************************************)
Position(x) == IF x = NegInf THEN -1 ELSE IF x = PosInf THEN MaxValue + 1 ELSE x.n

\* a is strictly better than b when larger (lb) or smaller (~lb) is better
StrictlyBetter(lb, a, b) ==
    IF lb THEN Position(a) > Position(b) ELSE Position(a) < Position(b)

\* the worst value of a direction
Worst(lb) == IF lb THEN NegInf ELSE PosInf

\* the best of a non-empty set of values
BestOf(lb, S) == CHOOSE x \in S : \A y \in S : ~StrictlyBetter(lb, y, x)

TrackerFields == <<monitor, larger_better, monitor_value, _real_monitor>>

\* C1: is_former_monitor_value_better(v1, v2) returns true iff larger_better and
\* v1 > v2, or not larger_better and v1 < v2; it returns false when v1 = v2;
\* and it changes no field of the tracker.
C1_FormerBetter ==
    [][call'.op = "is_former_monitor_value_better" =>
       \A v1 \in Values, v2 \in Values :
          IsFormerMonitorValueBetter(v1, v2) =>
              /\ call'.ret = PyBool(\/ larger_better /\ Position(v1) > Position(v2)
                                    \/ ~larger_better /\ Position(v1) < Position(v2))
              /\ (v1 = v2 => call'.ret = PyBool(FALSE))
              /\ UNCHANGED <<TrackerFields, must_have_moinitor>>]_vars

\* C1 happens: under smaller-is-better a call answered true
C1_Witness ==
    /\ call.op = "is_former_monitor_value_better"
    /\ call.ret = PyBool(TRUE)
    /\ ~larger_better

\* C2: after a reset, each is_better_monitor_value(v, keep_if_better=True)
\* returns True exactly when v is strictly better than every value passed
\* before it and than the sentinel, and monitor_value is the best of the
\* values passed (the sentinel while none was passed).
C2_RunningBest ==
    /\ [](monitor_value = BestOf(larger_better, passed \cup {Worst(larger_better)}))
    /\ [][call'.op = "is_better_monitor_value" =>
          \A v \in Values :
             IsBetterMonitorValueRecorded(v, TRUE) =>
                 call'.ret = PyBool(\A p \in passed \cup {Worst(larger_better)} :
                                        StrictlyBetter(larger_better, v, p))]_vars

\* C2 happens: 0, 2, 1 were passed under larger-is-better, the last call
\* answered False and 2 is kept
C2_Witness ==
    /\ larger_better
    /\ passed = {Num(0), Num(1), Num(2)}
    /\ call.op = "is_better_monitor_value"
    /\ call.ret = PyBool(FALSE)
    /\ monitor_value = Num(2)

\* a step that starts a tracker's record anew: set_monitor, or the adoption of
\* the trainer's monitor
IsReset ==
    \/ call'.op = "set_monitor"
    \/ call'.op = "on_after_trainer_initialized" /\ monitor = None /\ monitor' # None

\* C3: between two resets every step leaves monitor_value unchanged or
\* replaces it by a strictly better value of the configured direction.
C3_Monotonic ==
    [][~IsReset =>
          /\ larger_better' = larger_better
          /\ \/ monitor_value' = monitor_value
             \/ StrictlyBetter(larger_better, monitor_value', monitor_value)]_vars

\* C3 happens: a finite best value is kept and a later value was refused
C3_Witness ==
    /\ call.op = "is_better_monitor_value"
    /\ call.ret = PyBool(FALSE)
    /\ monitor_value = Num(1)
    /\ ~larger_better

\* C4: is_better_monitor_value overwrites monitor_value only when the value
\* is better and keep_if_better is true; otherwise monitor_value is unchanged;
\* monitor, larger_better and _real_monitor are never changed; and the call
\* returns the comparison either way.
C4_KeepOnlyIfAsked ==
    [][call'.op = "is_better_monitor_value" =>
       \A v \in Values, keep \in BOOLEAN :
          IsBetterMonitorValue(v, keep) =>
              LET better == StrictlyBetter(larger_better, v, monitor_value) IN
              /\ call'.ret = PyBool(better)
              /\ monitor_value' = IF keep /\ better THEN v ELSE monitor_value
              /\ UNCHANGED <<monitor, larger_better, _real_monitor>>]_vars

\* C4 happens: a finite value was reported better and the sentinel is still
\* there, so the call was one with keep_if_better=False
C4_Witness ==
    /\ call.op = "is_better_monitor_value"
    /\ call.ret = PyBool(TRUE)
    /\ larger_better
    /\ monitor_value = NegInf

\* C5: set_monitor(monitor, larger_better) sets the name (None stays None, a
\* name stays itself, another object becomes its str) and the direction,
\* resets monitor_value to the worst value of that direction, resets
\* _real_monitor to the name, and any finite value passed next to
\* is_better_monitor_value is reported better.
C5_SetMonitorResets ==
    /\ [][call'.op = "set_monitor" =>
          \A m \in MonitorArgs, lb \in LargerBetterArgs :
             SetMonitor(m, lb) =>
                 /\ (m = None \/ m.type = "str") => monitor' = m
                 /\ m = seven => monitor' = PyStr(<<"7">>)
                 /\ larger_better' = (lb \in {PyBool(TRUE), Num(1)})
                 /\ monitor_value' = Worst(larger_better')
                 /\ _real_monitor' = monitor']_vars
    /\ [][(call.op = "set_monitor" /\ call'.op = "is_better_monitor_value") =>
          \A n \in 0..MaxValue, keep \in BOOLEAN :
             IsBetterMonitorValue(Num(n), keep) =>
                 call'.ret = PyBool(TRUE)]_vars

\* C5 happens: set_monitor has reset a tracker to smaller-is-better
C5_Witness ==
    /\ call.op = "set_monitor"
    /\ monitor = acc
    /\ ~larger_better
    /\ monitor_value = PosInf
    /\ Truthy(ctor.larger_better)

\* C6: on_after_trainer_initialized raises iff must_have_monitor was given
\* and neither the tracker nor the trainer has a monitor; when it raises, no
\* field of the tracker has changed.
C6_MustHaveMonitor ==
    [][call'.op = "on_after_trainer_initialized" =>
       \A trainer \in Trainers :
          OnAfterTrainerInitialized(trainer) =>
              /\ call'.raised <=> (/\ ctor.must_have_monitor
                                   /\ monitor = None
                                   /\ trainer.monitor = None)
              /\ call'.raised => UNCHANGED TrackerFields]_vars

\* C6 happens: the call raised
C6_Witness ==
    /\ call.op = "on_after_trainer_initialized"
    /\ call.raised
    /\ monitor = None

\* C7: when the tracker has no monitor and the trainer has one,
\* on_after_trainer_initialized adopts the trainer's: monitor and _real_monitor
\* are the trainer's name, larger_better the trainer's direction, and
\* monitor_value the worst value of the trainer's direction.
C7_AdoptsTrainer ==
    [][(call'.op = "on_after_trainer_initialized" /\ monitor = None) =>
       \A trainer \in Trainers :
          (OnAfterTrainerInitialized(trainer) /\ trainer.monitor # None) =>
              /\ trainer.monitor.type = "str" => monitor' = trainer.monitor
              /\ trainer.monitor = seven => monitor' = PyStr(<<"7">>)
              /\ _real_monitor' = monitor'
              /\ larger_better' = (trainer.larger_better \in {PyBool(TRUE), Num(1)})
              /\ monitor_value' = Worst(larger_better')]_vars

\* C7 happens: a tracker constructed without a monitor and with
\* larger-is-better has adopted a smaller-is-better monitor
C7_Witness ==
    /\ call.op = "on_after_trainer_initialized"
    /\ ctor.monitor = None
    /\ Truthy(ctor.larger_better)
    /\ monitor = acc
    /\ ~larger_better
    /\ monitor_value = PosInf

\* C8: get_monitor_value of an empty mapping returns 0, raises nothing, logs
\* no warning and changes no field, whatever monitor and _real_monitor are.
C8_EmptyResults ==
    [][(call'.op = "get_monitor_value" /\ GetMonitorValue(<<>>)) =>
          /\ call'.ret = Num(0)
          /\ ~call'.raised
          /\ ~call'.warned
          /\ UNCHANGED <<TrackerFields, must_have_moinitor>>]_vars

\* C8 happens: the call returned 0 on a tracker whose last resolution was a
\* substitution
C8_Witness ==
    /\ call.op = "get_monitor_value"
    /\ call.ret = Num(0)
    /\ monitor = acc
    /\ _real_monitor = accu

\* C9: a get_monitor_value call with non-empty results warns exactly when the
\* key it resolves differs from the key the previous such call resolved (from
\* the requested name, for the first call after a reset), and after it
\* _real_monitor is the key just resolved.  (A call with empty results
\* resolves no key and does not warn, so the formula holds of it as well.)
C9_WarnsOnNewSubstitution ==
    /\ [](_real_monitor = resolved)
    /\ [][call'.op = "get_monitor_value" =>
             (call'.warned <=> resolved' # resolved)]_vars

\* C9 happens: a substitution that was made before was made again, without a
\* warning
C9_Witness ==
    /\ call.op = "get_monitor_value"
    /\ call.ret # Num(0)
    /\ ~call.warned
    /\ monitor = acc
    /\ _real_monitor = accu

\* C10: what on_save_checkpoint returns, given to on_load_checkpoint of a
\* fresh instance made with the same arguments, restores the tracker's state
\* as it was when saved, monitor_value in particular.
C10_RoundTrip ==
    [][(call.op = "on_save_checkpoint" /\ call'.op = "on_load_checkpoint") =>
          /\ monitor_value' = monitor_value
          /\ UNCHANGED <<monitor, larger_better, _real_monitor>>]_vars


(***************************************************************************)
(* Claims about the function adapter and its event filters.                *)
(***************************************************************************)
\* the calls among the first n whose number satisfies Due
CallsUpTo(n, Due(_)) == {k \in 1..n : Due(k)}

\* k is a multiple of n
MultipleOf(k, n) == \E j \in 1..k : k = j * n

\* k is odd
Odd(k) == \E j \in 0..k : k = 2 * j + 1

\* C11: a handler bound with every=N and nothing else runs on the calls N, 2N,
\* 3N, ... of its event and on no other; the Filter's counter is the number of
\* calls so far, so the first call counts as 1 and a call counts whether or not
\* the handler runs; with every=1 the handler runs on every call.
C11_Every ==
    \A event \in DOMAIN made :
        /\ filters[attrs[event]].num_called = delivered[event]
        /\ (/\ made[event].every # PyNone
            /\ made[event].once = PyNone
            /\ made[event].filter_fn = PyNone)
           => LET Due(k) == MultipleOf(k, made[event].every.n) IN
              /\ ran[event] = CallsUpTo(delivered[event], Due)
              /\ made[event].every = Num(1) => ran[event] = 1..delivered[event]

\* C11 happens: an event bound with every=2 was called four times and the
\* handler ran on the second and on the fourth call
C11_Witness ==
    \E event \in DOMAIN made :
        /\ made[event].every = Num(2)
        /\ made[event].once = PyNone
        /\ made[event].filter_fn = PyNone
        /\ delivered[event] = 4
        /\ ran[event] = {2, 4}

\* C12: a handler bound with once=K and no filter_fn runs on the K-th call of
\* its event and on no call before or after it.
C12_Once ==
    \A event \in DOMAIN made :
        (made[event].once # PyNone /\ made[event].filter_fn = PyNone)
            => LET Due(k) == k = made[event].once.n IN
               ran[event] = CallsUpTo(delivered[event], Due)

\* C12 happens: an event bound with once=2 was called four times and the
\* handler ran on the second call only
C12_Witness ==
    \E event \in DOMAIN made :
        /\ made[event].once = Num(2)
        /\ made[event].filter_fn = PyNone
        /\ delivered[event] = 4
        /\ ran[event] = {2}

\* C13: when filter_fn is given, every and once are not looked at, whatever
\* they are: the handler runs on exactly the calls whose number satisfies
\* filter_fn.
C13_FilterFnOverrides ==
    \A event \in DOMAIN made :
        made[event].filter_fn = is_odd
            => ran[event] = CallsUpTo(delivered[event], Odd)

\* C13 happens: bound with filter_fn=is_odd, every=2 and once=2, the handler
\* ran on the first and the third of three calls, and not on the second
C13_Witness ==
    \E event \in DOMAIN made :
        /\ made[event].filter_fn = is_odd
        /\ made[event].every = Num(2)
        /\ made[event].once = Num(2)
        /\ delivered[event] = 3
        /\ ran[event] = {1, 3}

\* what the event state asks for on the k-th call of its event
Asked(event_state, k) ==
    IF event_state.filter_fn # PyNone THEN Odd(k)
    ELSE IF event_state.once # PyNone THEN k = event_state.once.n
    ELSE IF event_state.every # PyNone THEN MultipleOf(k, event_state.every.n)
    ELSE TRUE

\* C14: each event a function is bound to has a Filter of its own: a call of
\* one event changes neither the counter nor the runs of another, and whether
\* the handler runs on it is decided by the number of that event's calls and
\* that event's own every, once and filter_fn.
C14_IndependentCounters ==
    /\ [](\A e1, e2 \in DOMAIN made : e1 # e2 => attrs[e1] # attrs[e2])
    /\ [][\A event \in DOMAIN made :
            (call'.op = event /\ delivered'[event] = delivered[event] + 1) =>
                /\ \A other \in DOMAIN made \ {event} :
                      /\ filters'[attrs[other]] = filters[attrs[other]]
                      /\ delivered'[other] = delivered[other]
                      /\ ran'[other] = ran[other]
                /\ (delivered'[event] \in ran'[event])
                       <=> Asked(made[event], delivered'[event])
                /\ ran'[event] \ {delivered'[event]} = ran[event]]_vars

\* C14 happens: two events are bound, one was called twice and ran on the
\* second call, the other was called once and ran
C14_Witness ==
    \E e1, e2 \in DOMAIN made :
        /\ e1 # e2
        /\ delivered[e1] = 2
        /\ ran[e1] = {2}
        /\ delivered[e2] = 1
        /\ ran[e2] = {1}

\* C15: callback_name of a plain Callback is the name of its class; of a
\* wrapper it is the name of the wrapped function, not the wrapper's class
\* name, whatever events it was bound with; and no call of a hook changes it.
C15_CallbackName ==
    /\ [](cls = "Callback" => callback_name = "Callback")
    /\ [](cls = "_CallbackWrapper" =>
              /\ callback_name \in {func.name : func \in Functions}
              /\ callback_name # "_CallbackWrapper")
    /\ [][callback_name' = callback_name]_vars

\* C15 happens: a wrapper of log_loss whose handler has run
C15_Witness ==
    /\ cls = "_CallbackWrapper"
    /\ callback_name = "log_loss"
    /\ \E event \in DOMAIN made : ran[event] # {}


(***************************************************************************)
(* Claims about the hooks.                                                 *)
(***************************************************************************)
\* C16: every hook is a no-op by default: called on a plain Callback, each
\* hook, on_save_checkpoint too, returns None and changes nothing; called on
\* a tracker, every hook but on_after_trainer_initialized does the same, so
\* monitor, larger_better, monitor_value and _real_monitor stay as they are.
C16_HooksAreNoOps ==
    [][(/\ call'.op \in Hooks
        /\ ~(cls = "HasMonitorCallback" /\ call'.op = "on_after_trainer_initialized"))
       => /\ call'.ret = PyNone
          /\ ~call'.raised
          /\ ~call'.warned
          /\ UNCHANGED <<cls, TrackerFields, must_have_moinitor, wrapperVars>>]_vars

\* C16 happens: on_save_checkpoint was called on a tracker that keeps a best
\* value
C16_Witness ==
    /\ cls = "HasMonitorCallback"
    /\ call.op = "on_save_checkpoint"
    /\ monitor = acc
    /\ monitor_value = Num(1)


(***************************************************************************)
(* Further claims about the tracker.                                       *)
(***************************************************************************)
\* C17: a get_monitor_value call whose non-empty results have the requested
\* monitor name as a key returns the value at that key and logs no warning,
\* whatever key an earlier call resolved.
C17_ExactMatchSilent ==
    [][call'.op = "get_monitor_value" =>
       \A results \in Results :
          (GetMonitorValue(results) /\ monitor \in KeysOf(results)) =>
              /\ call'.ret = Num(ValueAt(results, monitor).n)
              /\ ~call'.warned]_vars


\* C18: get_monitor_value writes no field but _real_monitor: monitor,
\* larger_better and monitor_value are after the call what they were before
\* it, whatever the results and the state, so looking a value up never
\* records it as the best.
C18_GetMonitorValueFrame ==
    [][call'.op = "get_monitor_value" =>
          UNCHANGED <<monitor, larger_better, monitor_value, must_have_moinitor>>]_vars

\* C18 happens: under larger-is-better the best value kept is 0, a call
\* looked up 2 at a substituted key, and 0 is still the best value
C18_Witness ==
    /\ call.op = "get_monitor_value"
    /\ call.ret = Num(2)
    /\ larger_better
    /\ monitor_value = Num(0)
    /\ monitor = acc
    /\ _real_monitor = accu


\* C19: on a tracker that has a monitor name of its own,
\* on_after_trainer_initialized leaves monitor, larger_better, monitor_value
\* and _real_monitor unchanged, whatever the trainer's monitor and
\* larger_better are; and on any tracker a call with the trainer of the call
\* before it changes none of the four, so a best value kept in between stays.
C19_InitializedOnce ==
    /\ [][(call'.op = "on_after_trainer_initialized" /\ monitor # None)
             => UNCHANGED TrackerFields]_vars
    /\ [][(call'.op = "on_after_trainer_initialized" /\ seen'.again)
             => UNCHANGED TrackerFields]_vars

\* C19 happens: a tracker made without a monitor adopted the trainer's, kept
\* the best value 1, and was then called with the same trainer again
C19_Witness ==
    /\ call.op = "on_after_trainer_initialized"
    /\ seen.again
    /\ seen.trainer.monitor = acc
    /\ ctor.monitor = None
    /\ monitor = acc
    /\ monitor_value = Num(1)

=============================================================================
